---- MODULE Spec2Model ----
(***************************************************************************)
(* Event clustering and verification engine of the disaster hub:           *)
(* backend/services/event_service.py (EventService), backend/models.py     *)
(* (Item, Event) and the verify_event route of api/disaster_routes.py.     *)
(*                                                                         *)
(* Units.  Latitude and longitude are integers counting hundredths of a    *)
(* degree.  created_at is an integer number of hours.  A mean of           *)
(* coordinates is kept as the exact fraction [n |-> sum, d |-> count].     *)
(***************************************************************************)
EXTENDS Integers, Sequences, FiniteSets, TLC

\* ------------------------------------------------------------------ bounds
MaxItems == 3          \* reports stored at one time
MaxEvents == 2         \* events the store holds
MaxVerify == 1         \* manual verify_event calls
MaxPool == 4           \* reports stored at one time when no verify_event is made

\* -------------------------------------------------------- program constants
NULL == -1000          \* a null numeric column (nullable=True)
NullStr == "<null>"    \* a null string column
CellWidth == 15        \* width of a cell at h3_resolution = 5, in hundredths of a degree
time_window_hours == 24
min_cluster_size == 2
eps_km == 10
min_samples == 2
KmScale == 2500        \* fixed-point steps per kilometre and per hour
LatScale == 2783       \* 111.32 km per degree, per hundredth of a degree, in KmScale steps
SourceThreshold == 3
official_sources == {"USGS", "GDACS"}

\* ----------------------------------------------------------------- reports
\* The reports ingestion may store (rows of the items table).  id is the
\* index in this catalogue.
Rep(la, lo, src, dt, t, pl) ==
    [lat |-> la, lon |-> lo, source |-> src, disaster_type |-> dt,
     created_at |-> t, place |-> pl]

Catalogue ==
    << Rep(1, 1, "TWITTER", "earthquake", 100, "SF"),
       Rep(2, 2, "REDDIT", "earthquake", 101, NullStr),
       Rep(3, 1, "USGS", "earthquake", 102, "Bay"),
       Rep(2, 1, "CITIZEN", "flood", 100, "Bay"),
       Rep(NULL, NULL, "CITIZEN", "earthquake", 100, "SF"),
       Rep(0, 5, "GDACS", "earthquake", 101, "Bay") >>

\* Further rows of the items table: a report of the same cell 30 hours
\* before report 1, one 9 hours after report 2 (within eps of report 2 and
\* not of report 1), and one some 200 km to the north; then two located
\* reports the classifier gave no disaster_type, the second without a
\* source, and a second report without coordinates.
FieldReports ==
    << Rep(2, 2, "REDDIT", "earthquake", 70, "Bay"),
       Rep(2, 2, "CITIZEN", "earthquake", 110, "SF"),
       Rep(181, 1, "CITIZEN", "earthquake", 100, "Reno"),
       Rep(1, 2, "TWITTER", NullStr, 100, "SF"),
       Rep(2, 1, NullStr, NullStr, 101, NullStr),
       Rep(NULL, NULL, "REDDIT", "flood", 100, "Bay") >>

ItemIds == 1..Len(Catalogue)
NoSuchItem == 0        \* an id no row of the items table has
Item(i) == IF i <= Len(Catalogue) THEN Catalogue[i]
           ELSE FieldReports[i - Len(Catalogue)]

VARIABLES
    items,      \* ids of the reports stored in the items table
    events,     \* the events table joined with item_event_association: a
                \* sequence of event rows, an event's id being its index
    last,       \* the last completed call: its name, argument, branch taken,
                \* result, and the row of the event it joined as it was before
    manual,     \* number of verify_event calls made
    pc,         \* position of each concurrent worker
    loc         \* session state of each concurrent worker

vars == <<items, events, last, manual, pc, loc>>

\* ----------------------------------------------------------------- helpers
RECURSIVE SumSeq(_)
SumSeq(s) == IF s = <<>> THEN 0 ELSE Head(s) + SumSeq(Tail(s))

RECURSIVE MinSeq(_)
MinSeq(s) == IF Len(s) = 1 THEN s[1]
             ELSE LET m == MinSeq(Tail(s)) IN IF s[1] <= m THEN s[1] ELSE m

RECURSIVE MaxSeq(_)
MaxSeq(s) == IF Len(s) = 1 THEN s[1]
             ELSE LET m == MaxSeq(Tail(s)) IN IF s[1] >= m THEN s[1] ELSE m

Range(s) == {s[k] : k \in 1..Len(s)}

Abs(x) == IF x < 0 THEN -x ELSE x

\* Variant: only 0.0 is taken for a missing coordinate, None is let through.
Falsy_OnlyZero(x) == x = 0

\* Python truthiness of a nullable float: None and 0.0 are both falsy.
Falsy(x) == x = NULL \/ x = 0

\* Python truthiness of a nullable string: None and "" are both falsy.
FalsyStr(s) == s = NullStr \/ s = ""

NoFrac == [n |-> 0, d |-> 0]

\* h3.geo_to_h3(lat, lon, h3_resolution) for a coordinate given as fractions.
\* A cell is a CellWidth-wide bucket of the grid.
geo_to_h3(la, lo) ==
    << la.n \div (la.d * CellWidth), lo.n \div (lo.d * CellWidth) >>

Frac(x) == [n |-> x, d |-> 1]

\* ------------------------------------------------------------ Event model
\* [item.lat for item in event.items if item.lat is not None]
RECURSIVE LatsOf(_)
LatsOf(its) ==
    IF its = <<>> THEN <<>>
    ELSE (IF Item(Head(its)).lat # NULL THEN <<Item(Head(its)).lat>> ELSE <<>>)
         \o LatsOf(Tail(its))

\* [item.lon for item in event.items if item.lon is not None]
RECURSIVE LonsOf(_)
LonsOf(its) ==
    IF its = <<>> THEN <<>>
    ELSE (IF Item(Head(its)).lon # NULL THEN <<Item(Head(its)).lon>> ELSE <<>>)
         \o LonsOf(Tail(its))

RECURSIVE TimesOf(_)
TimesOf(its) ==
    IF its = <<>> THEN <<>>
    ELSE <<Item(Head(its)).created_at>> \o TimesOf(Tail(its))

\* A transient Event(...) before any attribute is computed.
BlankEvent ==
    [disaster_type |-> NullStr, items |-> <<>>,
     centroid_lat |-> NoFrac, centroid_lon |-> NoFrac,
     bbox |-> <<>>, h3_index |-> <<>>,
     start_time |-> NULL, end_time |-> NULL,
     item_count |-> 0, source_count |-> 0,
     is_verified |-> FALSE, verification_reason |-> NullStr,
     title |-> NullStr, description |-> NullStr]

\* Variant: the centroid is averaged with the newest member instead of being
\* recomputed over all members.
update_event_geography_Running(ev) ==
    IF ev.items = <<>> THEN ev
    ELSE LET lats == LatsOf(ev.items)
             lons == LonsOf(ev.items)
         IN IF lats # <<>> /\ lons # <<>>
            THEN LET cla == IF ev.centroid_lat = NoFrac
                            THEN [n |-> SumSeq(lats), d |-> Len(lats)]
                            ELSE [n |-> ev.centroid_lat.n
                                        + lats[Len(lats)] * ev.centroid_lat.d,
                                  d |-> 2 * ev.centroid_lat.d]
                     clo == IF ev.centroid_lon = NoFrac
                            THEN [n |-> SumSeq(lons), d |-> Len(lons)]
                            ELSE [n |-> ev.centroid_lon.n
                                        + lons[Len(lons)] * ev.centroid_lon.d,
                                  d |-> 2 * ev.centroid_lon.d]
                 IN [ev EXCEPT !.centroid_lat = cla,
                               !.centroid_lon = clo,
                               !.h3_index = geo_to_h3(cla, clo),
                               !.bbox = << MinSeq(lons), MinSeq(lats),
                                           MaxSeq(lons), MaxSeq(lats) >>]
            ELSE ev

\* Variant: the bbox is written latitude first.
update_event_geography_LatFirst(ev) ==
    IF ev.items = <<>> THEN ev
    ELSE LET lats == LatsOf(ev.items)
             lons == LonsOf(ev.items)
         IN IF lats # <<>> /\ lons # <<>>
            THEN LET cla == [n |-> SumSeq(lats), d |-> Len(lats)]
                     clo == [n |-> SumSeq(lons), d |-> Len(lons)]
                 IN [ev EXCEPT !.centroid_lat = cla,
                               !.centroid_lon = clo,
                               !.h3_index = geo_to_h3(cla, clo),
                               !.bbox = << MinSeq(lats), MinSeq(lons),
                                           MaxSeq(lats), MaxSeq(lons) >>]
            ELSE ev

\* EventService._update_event_geography
update_event_geography(ev) ==
    IF ev.items = <<>> THEN ev
    ELSE LET lats == LatsOf(ev.items)
             lons == LonsOf(ev.items)
         IN IF lats # <<>> /\ lons # <<>>
            THEN LET cla == [n |-> SumSeq(lats), d |-> Len(lats)]
                     clo == [n |-> SumSeq(lons), d |-> Len(lons)]
                 IN [ev EXCEPT !.centroid_lat = cla,
                               !.centroid_lon = clo,
                               !.h3_index = geo_to_h3(cla, clo),
                               !.bbox = << MinSeq(lons), MinSeq(lats),
                                           MaxSeq(lons), MaxSeq(lats) >>]
            ELSE ev

\* Variant: the source count takes priority over an official source when
\* the reason is written.
update_verification_CountFirst(ev) ==
    LET has_official == \E k \in 1..Len(ev.items) :
                            Item(ev.items[k]).source \in official_sources
        has_enough_sources == ev.source_count >= SourceThreshold
    IN IF has_official \/ has_enough_sources
       THEN [ev EXCEPT !.is_verified = TRUE,
                       !.verification_reason =
                           IF has_enough_sources
                           THEN "multiple_sources_" \o ToString(ev.source_count)
                           ELSE "official_source"]
       ELSE [ev EXCEPT !.is_verified = FALSE,
                       !.verification_reason = NullStr]

\* Variant: only the newest member's source is tested for being official.
update_verification_Newest(ev) ==
    LET has_official == /\ ev.items # <<>>
                        /\ Item(ev.items[Len(ev.items)]).source
                             \in official_sources
        has_enough_sources == ev.source_count >= SourceThreshold
    IN IF has_official \/ has_enough_sources
       THEN [ev EXCEPT !.is_verified = TRUE,
                       !.verification_reason =
                           IF has_official THEN "official_source"
                           ELSE "multiple_sources_" \o ToString(ev.source_count)]
       ELSE [ev EXCEPT !.is_verified = FALSE,
                       !.verification_reason = NullStr]

\* Variant: more than three sources are required.
update_verification_Strict(ev) ==
    LET has_official == \E k \in 1..Len(ev.items) :
                            Item(ev.items[k]).source \in official_sources
        has_enough_sources == ev.source_count > SourceThreshold
    IN IF has_official \/ has_enough_sources
       THEN [ev EXCEPT !.is_verified = TRUE,
                       !.verification_reason =
                           IF has_official THEN "official_source"
                           ELSE "multiple_sources_" \o ToString(ev.source_count)]
       ELSE [ev EXCEPT !.is_verified = FALSE,
                       !.verification_reason = NullStr]

\* Event._update_verification
update_verification(ev) ==
    LET has_official == \E k \in 1..Len(ev.items) :
                            Item(ev.items[k]).source \in official_sources
        has_enough_sources == ev.source_count >= SourceThreshold
    IN IF has_official \/ has_enough_sources
       THEN [ev EXCEPT !.is_verified = TRUE,
                       !.verification_reason =
                           IF has_official THEN "official_source"
                           ELSE "multiple_sources_" \o ToString(ev.source_count)]
       ELSE [ev EXCEPT !.is_verified = FALSE,
                       !.verification_reason = NullStr]

\* Variant: every member's source is counted, equal ones too.
update_metrics_PerItem(ev) ==
    IF ev.items = <<>> THEN ev
    ELSE update_verification(
           [ev EXCEPT !.item_count = Len(ev.items),
                      !.source_count =
                          Cardinality({k \in 1..Len(ev.items) :
                                         ~FalsyStr(Item(ev.items[k]).source)})])

\* Event.update_metrics
update_metrics(ev) ==
    IF ev.items = <<>> THEN ev
    ELSE update_verification(
           [ev EXCEPT !.item_count = Len(ev.items),
                      !.source_count =
                          Cardinality({Item(ev.items[k]).source :
                                         k \in 1..Len(ev.items)}
                                      \ {NullStr, ""})])

\* Variant: the new report takes the place of the members.
add_item_to_event_Replace(ev, i) ==
    IF i \in Range(ev.items) THEN ev
    ELSE update_metrics(update_event_geography([ev EXCEPT !.items = <<i>>]))

\* Variant: start_time is left as it was when a member is added.
add_item_to_event_KeepStart(ev, i) ==
    IF i \in Range(ev.items) THEN ev
    ELSE LET t == Item(i).created_at
             e1 == [ev EXCEPT !.items = Append(@, i)]
             e3 == [e1 EXCEPT !.end_time =
                        IF @ = NULL \/ t > @ THEN t ELSE @]
         IN update_metrics(update_event_geography(e3))

\* Variant: the membership test is missing.
add_item_to_event_NoGuard(ev, i) ==
    LET t == Item(i).created_at
        e1 == [ev EXCEPT !.items = Append(@, i)]
        e2 == [e1 EXCEPT !.start_time = IF @ = NULL \/ t < @ THEN t ELSE @]
        e3 == [e2 EXCEPT !.end_time = IF @ = NULL \/ t > @ THEN t ELSE @]
    IN update_metrics(update_event_geography(e3))

\* EventService._add_item_to_event, on the event as the session holds it.
add_item_to_event(ev, i) ==
    IF i \in Range(ev.items) THEN ev
    ELSE LET t == Item(i).created_at
             e1 == [ev EXCEPT !.items = Append(@, i)]
             e2 == [e1 EXCEPT !.start_time =
                        IF @ = NULL \/ t < @ THEN t ELSE @]
             e3 == [e2 EXCEPT !.end_time =
                        IF @ = NULL \/ t > @ THEN t ELSE @]
         IN update_metrics(update_event_geography(e3))

\* str.capitalize() on the disaster types that occur.
Capitalize(s) ==
    CASE s = "earthquake" -> "Earthquake"
      [] s = "flood" -> "Flood"
      [] s = "disaster" -> "Disaster"
      [] OTHER -> s

\* max(set(disaster_types), key=disaster_types.count): every value the
\* iteration order of the set can make it return.
MostCommonTypes(its) ==
    LET tys == {Item(its[k]).disaster_type : k \in 1..Len(its)} \ {NullStr, ""}
        Count(ty) == Cardinality({k \in 1..Len(its) :
                                    Item(its[k]).disaster_type = ty})
    IN IF tys = {} THEN {"disaster"}
       ELSE {ty \in tys : \A o \in tys : Count(o) <= Count(ty)}

\* Variant: the place of the last report that has one.
RECURSIVE FirstPlace_Last(_)
FirstPlace_Last(its) ==
    IF its = <<>> THEN "an unknown location"
    ELSE IF ~FalsyStr(Item(its[Len(its)]).place) THEN Item(its[Len(its)]).place
         ELSE FirstPlace_Last(SubSeq(its, 1, Len(its) - 1))

\* next((item.place for item in event.items if item.place), "an unknown location")
RECURSIVE FirstPlace(_)
FirstPlace(its) ==
    IF its = <<>> THEN "an unknown location"
    ELSE IF ~FalsyStr(Item(Head(its)).place) THEN Item(Head(its)).place
         ELSE FirstPlace(Tail(its))

\* EventService._generate_event_summary; ty is the most common type picked.
generate_event_summary(ev, ty) ==
    IF ev.items = <<>> THEN ev
    ELSE LET location == FirstPlace(ev.items)
         IN [ev EXCEPT
               !.title = Capitalize(ty) \o " in " \o location,
               !.description =
                   "A " \o ty \o " event was reported in " \o location
                   \o " with " \o ToString(Len(ev.items))
                   \o " related reports from " \o ToString(ev.source_count)
                   \o " different sources."]

\* EventService._create_new_event for a non-empty list of reports.
create_new_event(its, ty) ==
    LET e0 == [BlankEvent EXCEPT
                 !.disaster_type = Item(its[1]).disaster_type,
                 !.start_time = MinSeq(TimesOf(its)),
                 !.end_time = MaxSeq(TimesOf(its))]
        e1 == [e0 EXCEPT !.items = its]
    IN generate_event_summary(update_metrics(update_event_geography(e1)), ty)

\* ---------------------------------------------------------- Event matcher
\* Squared distance, as a fraction, from report i to the centroid of ev.
\* great_circle(...).km orders points of one cell as this does.
CentroidDist2(i, ev) ==
    LET dla == ev.centroid_lat.d
        dlo == ev.centroid_lon.d
        a == Item(i).lat * dla - ev.centroid_lat.n
        b == Item(i).lon * dlo - ev.centroid_lon.n
    IN [n |-> a * a * dlo * dlo + b * b * dla * dla,
        d |-> dla * dla * dlo * dlo]

FracLeq(x, y) == x.n * y.d <= y.n * x.d

\* The filter of EventService._find_matching_events over the event rows evs.
\* Comparing a column with a None parameter is rendered IS NULL.
MatchingIds(i, evs) ==
    LET time_window_start == Item(i).created_at - time_window_hours
        h3_index == geo_to_h3(Frac(Item(i).lat), Frac(Item(i).lon))
    IN {e \in 1..Len(evs) :
          /\ evs[e].h3_index = h3_index
          /\ evs[e].start_time # NULL
          /\ evs[e].start_time >= time_window_start
          /\ evs[e].disaster_type = Item(i).disaster_type}

\* Variant: the list is not sorted, matching_events[0] is the first row the
\* query returns.
BestMatches_Any(i, evs) == MatchingIds(i, evs)

\* The ids matching_events[0] can be: the query has no ORDER BY and the sort
\* is stable, so any closest match can come first.
BestMatches(i, evs) ==
    LET m == MatchingIds(i, evs)
    IN {e \in m : \A o \in m :
          FracLeq(CentroidDist2(i, evs[e]), CentroidDist2(i, evs[o]))}

\* ------------------------------------------------------ Clustering engine
\* cos(radians(lat)) in ten-thousandths; lat in hundredths of a degree.
Cos4(lat) ==
    LET a == Abs(lat)
    IN IF a <= 57 THEN 10000
       ELSE IF a <= 99 THEN 9999
       ELSE IF a <= 128 THEN 9998
       ELSE IF a <= 151 THEN 9997
       ELSE IF a <= 171 THEN 9996
       ELSE IF a <= 190 THEN 9995
       ELSE 9994

\* One row of coords_norm, in KmScale steps.
NormX(i) == Item(i).lat * LatScale
NormY(i) == (Item(i).lon * LatScale * Cos4(Item(i).lat)) \div 10000
NormT(i) == Item(i).created_at * KmScale

\* Euclidean distance of two rows at most eps.
WithinEps(i, j) ==
    LET dx == Abs(NormX(i) - NormX(j))
        dy == Abs(NormY(i) - NormY(j))
        dt == Abs(NormT(i) - NormT(j))
        eps == eps_km * KmScale
    IN /\ dx <= eps /\ dy <= eps /\ dt <= eps
       /\ dx * dx + dy * dy + dt * dt <= eps * eps

\* items having both coordinates, in pool order: the rows of coords.
RECURSIVE ValidOf(_)
ValidOf(pool) ==
    IF pool = <<>> THEN <<>>
    ELSE (IF Item(Head(pool)).lat # NULL /\ Item(Head(pool)).lon # NULL
          THEN <<Head(pool)>> ELSE <<>>) \o ValidOf(Tail(pool))

MinOf(S) == CHOOSE x \in S : \A y \in S : x <= y

\* Variant: a row is labelled with its direct neighbours only, clusters
\* are not grown along chains.
DbscanLabels_Direct(valid) ==
    LET N == 1..Len(valid)
        Nbrs(k) == {l \in N : WithinEps(valid[k], valid[l])}
    IN [k \in N |-> IF Cardinality(Nbrs(k)) >= min_samples
                    THEN MinOf(Nbrs(k)) ELSE 0]

\* DBSCAN(eps, min_samples).fit(coords).labels_ over the rows valid: the
\* label of row k, given as the first row of its cluster, 0 for noise.
DbscanLabels(valid) ==
    LET N == 1..Len(valid)
        Nbrs(k) == {l \in N : WithinEps(valid[k], valid[l])}
        Core == {k \in N : Cardinality(Nbrs(k)) >= min_samples}
        Grow[S \in SUBSET N] ==
            LET S2 == S \cup {l \in Core : \E k \in S : l \in Nbrs(k)}
            IN IF S2 = S THEN S ELSE Grow[S2]
        Seed(k) == MinOf(Grow[{k}])
        Label(k) ==
            IF k \in Core THEN Seed(k)
            ELSE IF Nbrs(k) \cap Core # {}
                 THEN MinOf({Seed(c) : c \in Nbrs(k) \cap Core})
                 ELSE 0
    IN [k \in N |-> Label(k)]

RECURSIVE PickRows(_, _, _, _)
PickRows(pool, labels, lab, k) ==
    IF k > Len(labels) THEN <<>>
    ELSE (IF labels[k] = lab THEN <<pool[k]>> ELSE <<>>)
         \o PickRows(pool, labels, lab, k + 1)

RECURSIVE GroupClusters(_, _, _, _)
GroupClusters(pool, labels, seen, k) ==
    IF k > Len(labels) THEN <<>>
    ELSE IF labels[k] = 0 \/ labels[k] \in seen
         THEN GroupClusters(pool, labels, seen, k + 1)
         ELSE << PickRows(pool, labels, labels[k], 1) >>
              \o GroupClusters(pool, labels, seen \cup {labels[k]}, k + 1)

\* EventService._cluster_items: row idx of coords is looked up as items[idx]
\* in the unfiltered list.
cluster_items(pool) ==
    IF pool = <<>> THEN <<>>
    ELSE LET valid == ValidOf(pool)
         IN IF Len(valid) < min_cluster_size THEN <<>>
            ELSE GroupClusters(pool, DbscanLabels(valid), {}, 1)

\* ------------------------------------------------------------------ store
\* Variant: the query has no filter and returns every report.
Unclustered_All(its, evs) == its

\* Reports that are a member of no event (outer join with the association
\* table, item_id IS NULL), over the event rows evs.
Unclustered(its, evs) ==
    {i \in its : \A e \in 1..Len(evs) : i \notin Range(evs[e].items)}

\* Every order in which a query without ORDER BY can return the rows S.
Orders(S) ==
    {o \in [1..Cardinality(S) -> S] :
       \A a, b \in 1..Cardinality(S) : a # b => o[a] # o[b]}

\* The rows _create_new_event can build for each cluster, in cluster order.
RECURSIVE NewEventRows(_)
NewEventRows(cls) ==
    IF cls = <<>> THEN {<<>>}
    ELSE {<<create_new_event(Head(cls), ty)>> \o rest :
            ty \in MostCommonTypes(Head(cls)),
            rest \in NewEventRows(Tail(cls))}

\* A worker's session: the report and event row it loaded, whether the
\* report was in no event when the call began, the pool and the clusters a
\* sweep still has to persist, the branch taken.
IdleLoc == [item |-> 0, target |-> 0, snap |-> BlankEvent, fresh |-> FALSE,
            pool |-> <<>>, todo |-> <<>>, branch |-> "none"]

Processors == {"p1", "p2"}
Sweeper == "rc"
Workers == Processors \cup {Sweeper}

Init ==
    /\ items = {}
    /\ events = <<>>
    /\ last = [call |-> "init", arg |-> 0, branch |-> "none", ret |-> <<>>,
               before |-> BlankEvent]
    /\ manual = 0
    /\ pc = [w \in Workers |-> "idle"]
    /\ loc = [w \in Workers |-> IdleLoc]

\* ----------------------------------------------- operations, run serially
\* Ingestion stores report i (ingest.py, the /api/ingest route).
Ingest(i) ==
    /\ i \notin items
    /\ Cardinality(items) < MaxItems
    /\ items' = items \cup {i}
    /\ last' = [call |-> "ingest", arg |-> 0, branch |-> "stored", ret |-> <<>>,
                before |-> BlankEvent]
    /\ UNCHANGED <<events, manual, pc, loc>>

\* EventService.process_new_item(item_id)
ProcessNewItem(item_id) ==
    IF item_id \notin items \/ Falsy(Item(item_id).lat) \/ Falsy(Item(item_id).lon)
    THEN /\ last' = [call |-> "process_new_item", arg |-> item_id,
                     branch |-> "none", ret |-> <<>>, before |-> BlankEvent]
         /\ UNCHANGED <<items, events, manual, pc, loc>>
    ELSE IF MatchingIds(item_id, events) # {}
    THEN \E best \in BestMatches(item_id, events) :
         /\ events' = [events EXCEPT ![best] = add_item_to_event(@, item_id)]
         /\ last' = [call |-> "process_new_item", arg |-> item_id,
                     branch |-> IF item_id \in Range(events[best].items)
                                THEN "member" ELSE "added",
                     ret |-> <<best>>, before |-> events[best]]
         /\ UNCHANGED <<items, manual, pc, loc>>
    ELSE \E ty \in MostCommonTypes(<<item_id>>) :
         /\ Len(events) < MaxEvents
         /\ events' = Append(events, create_new_event(<<item_id>>, ty))
         /\ last' = [call |-> "process_new_item", arg |-> item_id,
                     branch |-> "created", ret |-> <<Len(events) + 1>>,
                     before |-> BlankEvent]
         /\ UNCHANGED <<items, manual, pc, loc>>

\* EventService.recluster_events()
ReclusterEvents ==
    LET unclustered == Unclustered(items, events)
    IN IF unclustered = {}
       THEN /\ last' = [call |-> "recluster_events", arg |-> 0,
                        branch |-> "empty", ret |-> <<>>,
                        before |-> BlankEvent]
            /\ UNCHANGED <<items, events, manual, pc, loc>>
       ELSE \E pool \in Orders(unclustered) :
            \E rows \in NewEventRows(cluster_items(pool)) :
            /\ Len(events) + Len(rows) <= MaxEvents
            /\ events' = events \o rows
            /\ last' = [call |-> "recluster_events", arg |-> 0,
                        branch |-> "clustered",
                        ret |-> [k \in 1..Len(rows) |-> Len(events) + k],
                        before |-> BlankEvent]
            /\ UNCHANGED <<items, manual, pc, loc>>

\* The verify_event route: reason or "manually_verified" if verify else None.
VerifyEvent(event_id, verify, reason) ==
    /\ event_id \in 1..Len(events)
    /\ events' = [events EXCEPT
                    ![event_id].is_verified = verify,
                    ![event_id].verification_reason =
                        IF verify
                        THEN (IF FalsyStr(reason) THEN "manually_verified"
                              ELSE reason)
                        ELSE NullStr]
    /\ manual < MaxVerify
    /\ manual' = manual + 1
    /\ last' = [call |-> "verify_event", arg |-> event_id,
                branch |-> IF verify THEN "verify" ELSE "unverify",
                ret |-> <<event_id>>, before |-> events[event_id]]
    /\ UNCHANGED <<items, pc, loc>>

\* The reason a caller of verify_event passes: the default, None.
Reasons == {NullStr}

Next ==
    \/ \E i \in ItemIds : Ingest(i)
    \/ \E i \in items \cup {NoSuchItem} : ProcessNewItem(i)
    \/ ReclusterEvents
    \/ \E e \in 1..MaxEvents, v \in BOOLEAN, r \in Reasons : VerifyEvent(e, v, r)

Spec == Init /\ [][Next]_vars

\* ------------------------------------- operations on reports spread wider
\* Reports of one cell spread over 40 hours: two within eps of each other,
\* the early one and the one 9 hours after report 2.
FieldItemIds == {1, 2, 7, 8}

\* A pool for the sweep: a chain of three reports linked by steps of at
\* most eps, a report without coordinates, and the one 200 km away.
SweepItemIds == {1, 2, 5, 8, 9}

\* Ingestion stores report i.
IngestField(i) ==
    /\ i \notin items
    /\ Cardinality(items) < MaxPool
    /\ items' = items \cup {i}
    /\ last' = [call |-> "ingest", arg |-> 0, branch |-> "stored", ret |-> <<>>,
                before |-> BlankEvent]
    /\ UNCHANGED <<events, manual, pc, loc>>

NextField ==
    \/ \E i \in FieldItemIds : IngestField(i)
    \/ \E i \in items \cup {NoSuchItem} : ProcessNewItem(i)
    \/ ReclusterEvents

SpecField == Init /\ [][NextField]_vars

NextSweep ==
    \/ \E i \in SweepItemIds : IngestField(i)
    \/ \E i \in items \cup {NoSuchItem} : ProcessNewItem(i)
    \/ ReclusterEvents

SpecSweep == Init /\ [][NextSweep]_vars

\* Reports with null columns: two without coordinates, two located ones
\* without disaster_type, next to a complete one.
NullItemIds == {1, 5, 10, 11, 12}

NextNulls ==
    \/ \E i \in NullItemIds : IngestField(i)
    \/ \E i \in items \cup {NoSuchItem} : ProcessNewItem(i)
    \/ ReclusterEvents

SpecNulls == Init /\ [][NextNulls]_vars

\* ------------------------------------------- _create_new_event on its own
\* The lists of at most two stored reports, the empty list among them.
ItemLists(its) ==
    {<<>>} \cup {<<i>> : i \in its}
           \cup {l \in its \X its : l[1] # l[2]}

\* EventService._create_new_event(items) called with the list its.
CreateNewEvent(its) ==
    IF its = <<>>
    THEN /\ last' = [call |-> "create_new_event", arg |-> 0,
                     branch |-> "none", ret |-> <<>>, before |-> BlankEvent]
         /\ UNCHANGED <<items, events, manual, pc, loc>>
    ELSE \E ty \in MostCommonTypes(its) :
         /\ Len(events) < MaxEvents
         /\ events' = Append(events, create_new_event(its, ty))
         /\ last' = [call |-> "create_new_event", arg |-> 0,
                     branch |-> "created", ret |-> <<Len(events) + 1>>,
                     before |-> BlankEvent]
         /\ UNCHANGED <<items, manual, pc, loc>>

NextCreate ==
    \/ \E i \in NullItemIds : IngestField(i)
    \/ \E its \in ItemLists(items) : CreateNewEvent(its)

SpecCreate == Init /\ [][NextCreate]_vars

\* ------------------------------- operations as concurrent request sessions
\* Each worker is one request with its own session; a step is one statement
\* against the store (a query, a lazy load, a commit).  p1 and p2 are two
\* process_new_item requests, rc is a recluster request.

\* The reports that arrive while requests overlap.
ConcItemIds == {1, 2, 3}

AllIdle == \A w \in Workers : pc[w] = "idle"

\* A request served before any other is in flight.
ProcessAlone(item_id) == AllIdle /\ ProcessNewItem(item_id)

\* process_new_item up to the query of _find_matching_events.
PnFind(p, item_id) ==
    /\ pc[p] = "idle"
    /\ LET base == [IdleLoc EXCEPT !.item = item_id]
       IN IF item_id \notin items \/ Falsy(Item(item_id).lat)
                                  \/ Falsy(Item(item_id).lon)
          THEN /\ pc' = [pc EXCEPT ![p] = "done"]
               /\ loc' = [loc EXCEPT ![p] = base]
          ELSE LET fr == item_id \in Unclustered(items, events)
               IN IF MatchingIds(item_id, events) # {}
                  THEN \E best \in BestMatches(item_id, events) :
                       /\ pc' = [pc EXCEPT ![p] = "matched"]
                       /\ loc' = [loc EXCEPT ![p] =
                                    [base EXCEPT !.target = best,
                                                 !.snap = events[best],
                                                 !.fresh = fr]]
                  ELSE /\ pc' = [pc EXCEPT ![p] = "creating"]
                       /\ loc' = [loc EXCEPT ![p] = [base EXCEPT !.fresh = fr]]
    /\ UNCHANGED <<items, events, last, manual>>

\* "item not in event.items": the lazy load of the event's members.
PnLoad(p) ==
    /\ pc[p] = "matched"
    /\ LET members == events[loc[p].target].items
       IN IF loc[p].item \in Range(members)
          THEN /\ pc' = [pc EXCEPT ![p] = "done"]
               /\ loc' = [loc EXCEPT ![p].branch = "member"]
          ELSE /\ pc' = [pc EXCEPT ![p] = "dirty"]
               /\ loc' = [loc EXCEPT ![p].snap.items = members]
    /\ UNCHANGED <<items, events, last, manual>>

\* The UPDATE a flush emits: only the attributes whose value differs from
\* the one the session loaded are written.
FlushRow(row, loaded, computed) ==
    [f \in DOMAIN row |->
        IF f = "items" THEN row[f]
        ELSE IF computed[f] # loaded[f] THEN computed[f] ELSE row[f]]

\* db.commit() of _add_item_to_event: the association row is inserted and
\* the event row updated from the session's copy.
PnCommit(p) ==
    /\ pc[p] = "dirty"
    /\ LET e == loc[p].target
           i == loc[p].item
           computed == add_item_to_event(loc[p].snap, i)
       IN IF i \in Range(events[e].items)
          THEN \* duplicate primary key: IntegrityError, rolled back
               /\ events' = events
               /\ loc' = [loc EXCEPT ![p].branch = "failed"]
          ELSE /\ events' = [events EXCEPT ![e] =
                               [FlushRow(@, loc[p].snap, computed)
                                  EXCEPT !.items = Append(events[e].items, i)]]
               /\ loc' = [loc EXCEPT ![p].branch = "added"]
    /\ pc' = [pc EXCEPT ![p] = "done"]
    /\ UNCHANGED <<items, last, manual>>

\* _create_new_event([item]) and its commit, after no event matched.
PnCreate(p) ==
    /\ pc[p] = "creating"
    /\ Len(events) < MaxEvents
    /\ \E ty \in MostCommonTypes(<<loc[p].item>>) :
         events' = Append(events, create_new_event(<<loc[p].item>>, ty))
    /\ pc' = [pc EXCEPT ![p] = "done"]
    /\ loc' = [loc EXCEPT ![p].branch = "created",
                          ![p].target = Len(events) + 1]
    /\ UNCHANGED <<items, last, manual>>

\* recluster_events: the query for unclustered items, then _cluster_items.
RcRead ==
    /\ pc[Sweeper] = "idle"
    /\ LET unclustered == Unclustered(items, events)
           base == IdleLoc
       IN IF unclustered = {}
          THEN /\ pc' = [pc EXCEPT ![Sweeper] = "done"]
               /\ loc' = [loc EXCEPT ![Sweeper] = base]
          ELSE \E pool \in Orders(unclustered) :
               /\ pc' = [pc EXCEPT ![Sweeper] = "sweeping"]
               /\ loc' = [loc EXCEPT ![Sweeper] =
                            [base EXCEPT !.pool = pool,
                                         !.todo = cluster_items(pool)]]
    /\ UNCHANGED <<items, events, last, manual>>

\* One turn of the loop over clusters: _create_new_event and its commit.
RcCreate ==
    /\ pc[Sweeper] = "sweeping"
    /\ loc[Sweeper].todo # <<>>
    /\ Len(events) < MaxEvents
    /\ \E ty \in MostCommonTypes(Head(loc[Sweeper].todo)) :
         events' = Append(events, create_new_event(Head(loc[Sweeper].todo), ty))
    /\ loc' = [loc EXCEPT ![Sweeper].todo = Tail(@),
                          ![Sweeper].branch = "clustered"]
    /\ UNCHANGED <<items, last, manual, pc>>

\* recluster_events returns new_events.
RcReturn ==
    /\ pc[Sweeper] = "sweeping"
    /\ loc[Sweeper].todo = <<>>
    /\ pc' = [pc EXCEPT ![Sweeper] = "done"]
    /\ UNCHANGED <<items, events, last, manual, loc>>

NextConc ==
    \/ \E i \in ConcItemIds : Ingest(i)
    \/ \E i \in items : ProcessAlone(i)
    \/ \E p \in Processors : \E i \in items \cup {NoSuchItem} : PnFind(p, i)
    \/ \E p \in Processors : PnLoad(p)
    \/ \E p \in Processors : PnCommit(p)
    \/ \E p \in Processors : PnCreate(p)
    \/ RcRead
    \/ RcCreate
    \/ RcReturn

SpecConc == Init /\ [][NextConc]_vars

\* ============================================================= properties
EventIds == 1..Len(events)
MembersOf(ev) == Range(ev.items)

\* Did the last call (process_new_item) put its report into an event?
LastAdded == last.call = "process_new_item" /\ last.branch = "added"
LastTarget == events[last.ret[1]]

\* C1: every member report of every event has the disaster_type of the
\* event it belongs to.
C1_DisasterTypePurity ==
    \A e \in EventIds : \A i \in MembersOf(events[e]) :
        Item(i).disaster_type = events[e].disaster_type

\* Members of ev that have coordinates, and the aggregates the policy and
\* the geography are defined by, taken over the member set.
Located(ev) == {i \in MembersOf(ev) : Item(i).lat # NULL /\ Item(i).lon # NULL}

RECURSIVE SumLat(_)
SumLat(S) == IF S = {} THEN 0
             ELSE LET i == CHOOSE x \in S : TRUE
                  IN Item(i).lat + SumLat(S \ {i})

RECURSIVE SumLon(_)
SumLon(S) == IF S = {} THEN 0
             ELSE LET i == CHOOSE x \in S : TRUE
                  IN Item(i).lon + SumLon(S \ {i})

DistinctSources(ev) ==
    {Item(i).source : i \in MembersOf(ev)} \ {NullStr, ""}

HasOfficial(ev) == \E i \in MembersOf(ev) : Item(i).source \in official_sources

\* The derived fields of ev reflect exactly its members.
ReflectsMembers(ev) ==
    /\ ev.item_count = Cardinality(MembersOf(ev))
    /\ ev.item_count = Len(ev.items)
    /\ ev.source_count = Cardinality(DistinctSources(ev))
    /\ Located(ev) # {} =>
         /\ ev.centroid_lat = [n |-> SumLat(Located(ev)),
                               d |-> Cardinality(Located(ev))]
         /\ ev.centroid_lon = [n |-> SumLon(Located(ev)),
                               d |-> Cardinality(Located(ev))]
         /\ ev.bbox # <<>>
         /\ \A i \in Located(ev) :
              /\ ev.bbox[1] <= Item(i).lon /\ Item(i).lon <= ev.bbox[3]
              /\ ev.bbox[2] <= Item(i).lat /\ Item(i).lat <= ev.bbox[4]
    /\ ev.is_verified = (HasOfficial(ev) \/ Cardinality(DistinctSources(ev)) >= 3)

\* C2: when two process_new_item requests for two different reports have
\* both added their report to the same event, the event's item_count,
\* source_count, centroid, bbox and verification reflect both new members.
C2_NoLostUpdate ==
    ( /\ pc["p1"] = "done" /\ pc["p2"] = "done"
      /\ loc["p1"].branch = "added" /\ loc["p2"].branch = "added"
      /\ loc["p1"].target = loc["p2"].target
      /\ loc["p1"].item # loc["p2"].item )
    => LET ev == events[loc["p1"].target]
       IN /\ loc["p1"].item \in MembersOf(ev)
          /\ loc["p2"].item \in MembersOf(ev)
          /\ ReflectsMembers(ev)

\* C3: a report that was in no event when a sweep read its pool and when a
\* process_new_item request for it began is, after both have finished and
\* the request has given it an event, a member of exactly one event.
C3_SingleClaim ==
    \A p \in Processors :
      ( /\ pc[Sweeper] = "done" /\ pc[p] = "done"
        /\ loc[p].fresh
        /\ loc[p].branch \in {"added", "created"}
        /\ loc[p].item \in Range(loc[Sweeper].pool) )
      => Cardinality({e \in EventIds : loc[p].item \in MembersOf(events[e])}) = 1

\* C4: a step that puts a report with an official source into an existing
\* event, whatever the event's verification was before, leaves the event
\* with is_verified = true and verification_reason = "official_source".
C4_OfficialAddVerifies ==
    [][\A e \in EventIds : \A i \in items :
         ( /\ i \notin MembersOf(events[e])
           /\ i \in MembersOf(events'[e])
           /\ Item(i).source \in {"USGS", "GDACS"} )
         => /\ events'[e].is_verified = TRUE
            /\ events'[e].verification_reason = "official_source"]_vars

\* An official report has just joined an event that held an official member
\* and had been unverified by hand.
C4_Witness ==
    /\ LastAdded
    /\ Item(last.arg).source \in {"USGS", "GDACS"}
    /\ HasOfficial(last.before)
    /\ last.before.is_verified = FALSE
    /\ LastTarget.is_verified = TRUE
    /\ LastTarget.verification_reason = "official_source"

\* C5: after every step that creates an event or gives it a new member,
\* is_verified = (some member is official or source_count >= 3), the reason
\* is "official_source" when an official member exists,
\* "multiple_sources_<source_count>" when only the count holds, null when
\* neither holds, whatever verification the event had before the step.
C5_VerificationPolicy ==
    [][\A e \in 1..Len(events') :
         (e > Len(events) \/ events'[e].items # events[e].items)
         => LET ev == events'[e]
            IN /\ ev.is_verified = (HasOfficial(ev) \/ ev.source_count >= 3)
               /\ ev.verification_reason =
                    IF HasOfficial(ev) THEN "official_source"
                    ELSE IF ev.source_count >= 3
                         THEN "multiple_sources_" \o ToString(ev.source_count)
                         ELSE NullStr]_vars

\* A new member has just joined an event verified by hand, and the
\* recomputation has unverified it.
C5_Witness ==
    /\ LastAdded
    /\ last.before.is_verified = TRUE
    /\ last.before.verification_reason = "manually_verified"
    /\ LastTarget.is_verified = FALSE
    /\ LastTarget.verification_reason = NullStr
    /\ LastTarget.source_count = 2

\* C6: a process_new_item call that reaches _add_item_to_event with a
\* report the event already has leaves every event exactly as the first
\* addition left it.
C6_IdempotentAdd ==
    [][(last'.call = "process_new_item" /\ last'.branch = "member")
       => events' = events]_vars

\* The report was added once, and a second call has met it as a member.
C6_Witness ==
    /\ last.call = "process_new_item"
    /\ last.branch = "member"
    /\ last.arg \in MembersOf(LastTarget)
    /\ Len(LastTarget.items) >= 2
    /\ LastTarget = last.before

\* C7: the centroid of every event is (mean latitude, mean longitude) of
\* its members that have coordinates.
C7_CentroidIsMean ==
    \A e \in EventIds :
      LET ev == events[e]
      IN Located(ev) # {} =>
           /\ ev.centroid_lat.d = Cardinality(Located(ev))
           /\ ev.centroid_lat.n = SumLat(Located(ev))
           /\ ev.centroid_lon.d = Cardinality(Located(ev))
           /\ ev.centroid_lon.n = SumLon(Located(ev))

\* A third located member has just joined and moved the centroid.
C7_Witness ==
    /\ LastAdded
    /\ Cardinality(Located(LastTarget)) >= 3
    /\ LastTarget.centroid_lat # last.before.centroid_lat
    /\ LastTarget.centroid_lon # last.before.centroid_lon

\* C8: the bbox of every event is [min longitude, min latitude,
\* max longitude, max latitude] of its members that have coordinates.
C8_BboxIsExtent ==
    \A e \in EventIds :
      LET ev == events[e]
          L == Located(ev)
      IN L # {} =>
           /\ Len(ev.bbox) = 4
           /\ \E i \in L : Item(i).lon = ev.bbox[1]
           /\ \E i \in L : Item(i).lat = ev.bbox[2]
           /\ \E i \in L : Item(i).lon = ev.bbox[3]
           /\ \E i \in L : Item(i).lat = ev.bbox[4]
           /\ \A i \in L : /\ ev.bbox[1] <= Item(i).lon
                           /\ Item(i).lon <= ev.bbox[3]
                           /\ ev.bbox[2] <= Item(i).lat
                           /\ Item(i).lat <= ev.bbox[4]

\* A new member has just widened a bbox whose four bounds all differ.
C8_Witness ==
    /\ LastAdded
    /\ LastTarget.bbox # last.before.bbox
    /\ Cardinality({LastTarget.bbox[k] : k \in 1..4}) = 4

\* C9 as claimed: process_new_item for a stored report whose latitude is
\* null returns a singleton event holding the report, with unset centroid.
C9_NullLatSingleton ==
    ( /\ last.call = "process_new_item"
      /\ last.arg \in items
      /\ Item(last.arg).lat = NULL )
    => /\ last.ret # <<>>
       /\ events[last.ret[1]].items = <<last.arg>>
       /\ events[last.ret[1]].centroid_lat = NoFrac

\* C9 as amended: process_new_item for a stored report whose latitude is
\* null returns no event, creates no event and changes no event; no match
\* is attempted.
C9_NullLatSkipped ==
    [][( /\ last'.call = "process_new_item"
         /\ last'.arg \in items
         /\ Item(last'.arg).lat = NULL )
       => /\ last'.ret = <<>>
          /\ last'.branch = "none"
          /\ events' = events]_vars

\* The call was made for a stored null-latitude report while an event of
\* its disaster type held no such report.
C9_Witness ==
    /\ last.call = "process_new_item"
    /\ last.arg \in items
    /\ Item(last.arg).lat = NULL
    /\ \E e \in EventIds :
         /\ events[e].disaster_type = Item(last.arg).disaster_type
         /\ last.arg \notin MembersOf(events[e])

\* Events a report may join: same cell, same disaster type, start_time no
\* earlier than 24 hours before the report.
Candidates(i, evs) ==
    {e \in 1..Len(evs) :
       /\ evs[e].h3_index =
             << Item(i).lat \div CellWidth, Item(i).lon \div CellWidth >>
       /\ evs[e].disaster_type = Item(i).disaster_type
       /\ evs[e].start_time >= Item(i).created_at - 24}

\* C10: process_new_item on a stored report with coordinates adds it to a
\* candidate event and creates none when a candidate exists, creates
\* exactly one event holding only the report when none exists, and never
\* adds it to an event that is not a candidate.
C10_MatchOrCreate ==
    [][( /\ last'.call = "process_new_item"
         /\ last'.arg \in items
         /\ Item(last'.arg).lat # NULL
         /\ Item(last'.arg).lon # NULL )
       => LET i == last'.arg
              cands == Candidates(i, events)
          IN /\ \A e \in EventIds :
                  e \notin cands => events'[e] = events[e]
             /\ IF cands # {}
                THEN /\ Len(events') = Len(events)
                     /\ \E e \in cands : i \in MembersOf(events'[e])
                ELSE /\ Len(events') = Len(events) + 1
                     /\ events'[Len(events')].items = <<i>>]_vars

\* C11: the event process_new_item puts a report into (or finds it in) is
\* a candidate for the report, and no candidate's centroid is strictly
\* nearer to the report's coordinates than the centroid of that event.
C11_ClosestCandidate ==
    [][( /\ last'.call = "process_new_item"
         /\ last'.branch \in {"added", "member"} )
       => LET i == last'.arg
              e == last'.ret[1]
              cands == Candidates(i, events)
          IN /\ e \in cands
             /\ i \in MembersOf(events'[e])
             /\ \A o \in cands :
                  FracLeq(CentroidDist2(i, events[e]),
                          CentroidDist2(i, events[o]))]_vars

\* The report, until then in no event, has just joined one of two
\* candidates, the other's centroid being strictly farther from it.
C11_Witness ==
    /\ LastAdded
    /\ Cardinality({e \in EventIds : last.arg \in MembersOf(events[e])}) = 1
    /\ \E o \in EventIds \ {last.ret[1]} :
         /\ o \in Candidates(last.arg, events)
         /\ ~FracLeq(CentroidDist2(last.arg, events[o]),
                     CentroidDist2(last.arg, last.before))

\* C12: a process_new_item call for a report that is already a member of an
\* event creates no event and leaves the members of every event as they
\* were.
C12_RepeatKeepsMembership ==
    [][( /\ last'.call = "process_new_item"
         /\ last'.arg \in items
         /\ \E e \in EventIds : last'.arg \in MembersOf(events[e]) )
       => /\ Len(events') = Len(events)
          /\ \A e \in EventIds :
               MembersOf(events'[e]) = MembersOf(events[e])]_vars

\* The events a step has created, and the reports with coordinates that
\* were in no event before it: the points the sweep clusters.
CreatedIds(evs, evs2) == (Len(evs) + 1)..Len(evs2)
HasCoords(i) == Item(i).lat # NULL /\ Item(i).lon # NULL
LocatedPool(its, evs) == {i \in Unclustered(its, evs) : HasCoords(i)}

\* The reports of S that a chain of reports of S, each within eps of the
\* next, links to report i.
EpsGroup(i, S) ==
    LET Grow[G \in SUBSET S] ==
            LET G2 == G \cup {j \in S : \E k \in G : WithinEps(k, j)}
            IN IF G2 = G THEN G ELSE Grow[G2]
    IN Grow[{i}]

\* C13: no event created by recluster_events has a member whose latitude
\* or longitude is null.
C13_SweepSkipsNullCoords ==
    [][last'.call = "recluster_events"
       => \A e \in CreatedIds(events, events') :
            \A i \in MembersOf(events'[e]) : HasCoords(i)]_vars

\* C14: any two reports with coordinates that recluster_events puts into
\* one event are linked by a chain of pooled reports, each within eps of
\* the next in the km/km/hours metric.
C14_SweepMergesOnlyLinked ==
    [][last'.call = "recluster_events"
       => LET pool == LocatedPool(items, events)
          IN \A e \in CreatedIds(events, events') :
               \A i, j \in MembersOf(events'[e]) \cap pool :
                 j \in EpsGroup(i, pool)]_vars

\* C15: after recluster_events every pooled report with coordinates that
\* had no other pooled report within eps is a member of no event, and no
\* event the call created has a single member.
C15_NoiseStaysUnclustered ==
    [][last'.call = "recluster_events"
       => LET pool == LocatedPool(items, events)
              noise == {i \in pool :
                          \A j \in pool \ {i} : ~WithinEps(i, j)}
          IN /\ \A i \in noise : i \in Unclustered(items', events')
             /\ \A e \in CreatedIds(events, events') :
                  Cardinality(MembersOf(events'[e])) >= 2]_vars

\* C16: when the reports in no event all have coordinates and form one
\* group of two or more linked by steps of at most eps in space and time,
\* recluster_events returns exactly one event, and its members are exactly
\* those reports.
C16_LinkedPoolOneEvent ==
    [][last'.call = "recluster_events"
       => LET pool == Unclustered(items, events)
          IN ( /\ Cardinality(pool) >= 2
               /\ \A i \in pool : HasCoords(i)
               /\ \A i \in pool : EpsGroup(i, pool) = pool )
             => /\ Len(events') = Len(events) + 1
                /\ last'.ret = <<Len(events')>>
                /\ MembersOf(events'[Len(events')]) = pool
                /\ Len(events'[Len(events')].items) = Cardinality(pool)]_vars

\* The sweep has just made one event of three reports, the first and the
\* last of which are linked only through the middle one.
C16_Witness ==
    /\ last.call = "recluster_events"
    /\ Len(last.ret) = 1
    /\ Unclustered(items, events) = {}
    /\ LET ev == events[last.ret[1]]
       IN /\ Cardinality(MembersOf(ev)) = 3
          /\ \A i \in MembersOf(ev) : HasCoords(i)
          /\ \E i, j \in MembersOf(ev) : ~WithinEps(i, j)
          /\ \A i \in MembersOf(ev) : EpsGroup(i, MembersOf(ev)) = MembersOf(ev)

\* The partition into new events that a sweep makes when the query returns
\* the pool in the order given.
PartitionOf(pool) ==
    {Range(cluster_items(pool)[k]) : k \in 1..Len(cluster_items(pool))}

\* C17: in every state of the store, whatever order the query returns the
\* unclustered reports in, recluster_events partitions them into the same
\* new events.
C17_SweepDeterministic ==
    \A p, q \in Orders(Unclustered(items, events)) :
        PartitionOf(p) = PartitionOf(q)

C19_OnlyGrow ==
    [][/\ Len(events') >= Len(events)
       /\ \A e \in EventIds :
            MembersOf(events[e]) \subseteq MembersOf(events'[e])]_vars

\* The first event has gained a member after a second event was created,
\* and has kept the members it had.
C19_Witness ==
    /\ LastAdded
    /\ last.ret[1] = 1
    /\ Len(events) >= 2
    /\ MembersOf(last.before) # {}
    /\ MembersOf(last.before) \subseteq MembersOf(events[1])
    /\ MembersOf(last.before) # MembersOf(events[1])

\* C20: a recluster_events or process_new_item call leaves is_verified
\* and verification_reason of every event it gives no new member as they
\* were, so values set by verify_event are kept.
C20_ManualVerificationKept ==
    [][last'.call \in {"recluster_events", "process_new_item"}
       => \A e \in EventIds :
            MembersOf(events'[e]) = MembersOf(events[e])
            => /\ events'[e].is_verified = events[e].is_verified
               /\ events'[e].verification_reason
                    = events[e].verification_reason]_vars

\* An event verified by hand, which the policy would leave unverified, is
\* still verified with the manual reason after a sweep that created an
\* event.
C20_Witness ==
    /\ last.call = "recluster_events"
    /\ last.ret # <<>>
    /\ \E e \in EventIds \ Range(last.ret) :
         /\ events[e].is_verified = TRUE
         /\ events[e].verification_reason = "manually_verified"
         /\ ~HasOfficial(events[e])
         /\ Cardinality(DistinctSources(events[e])) < 3

\* C21: every event _create_new_event returns and persists has a member
\* with coordinates: for an empty list, and for a list in which every
\* report has null coordinates, it returns no event and persists none.
C21_NoEventWithoutCoords ==
    [][last'.call = "create_new_event"
       => /\ Len(last'.ret) = Len(events') - Len(events)
          /\ \A e \in CreatedIds(events, events') :
               \E i \in MembersOf(events'[e]) : HasCoords(i)]_vars

\* C22: a process_new_item call for a stored report that has coordinates
\* and a null disaster_type adds the report to no existing event.
C22_NullTypeNotMatched ==
    [][( /\ last'.call = "process_new_item"
         /\ last'.arg \in items
         /\ HasCoords(last'.arg)
         /\ Item(last'.arg).disaster_type = NullStr )
       => \A e \in EventIds :
            MembersOf(events'[e]) = MembersOf(events[e])]_vars

\* C23: in every event, item_count is the number of members and
\* source_count the number of distinct source values among the members (a
\* null source is no value), and source_count <= item_count.
C23_CountsMatchMembers ==
    \A e \in EventIds :
      LET ev == events[e]
      IN /\ ev.item_count = Cardinality(MembersOf(ev))
         /\ ev.source_count = Cardinality(DistinctSources(ev))
         /\ ev.source_count <= ev.item_count

\* A member has just joined that brought no new source value (its source
\* is null or one the event had), and the event counts fewer sources than
\* members.
C23_Witness ==
    /\ LastAdded
    /\ LastTarget.item_count = last.before.item_count + 1
    /\ LastTarget.source_count = last.before.source_count
    /\ LastTarget.source_count < LastTarget.item_count

\* C24: in every event, start_time is the earliest and end_time the latest
\* created_at among the members, and start_time <= end_time.
C24_TimesSpanMembers ==
    \A e \in EventIds :
      LET ev == events[e]
          M == MembersOf(ev)
      IN M # {} =>
           /\ \E i \in M : Item(i).created_at = ev.start_time
           /\ \E i \in M : Item(i).created_at = ev.end_time
           /\ \A i \in M : /\ ev.start_time <= Item(i).created_at
                           /\ Item(i).created_at <= ev.end_time
           /\ ev.start_time <= ev.end_time

\* A report older than every member has just joined and has moved
\* start_time back, end_time staying at a later member's hour.
C24_Witness ==
    /\ LastAdded
    /\ LastTarget.start_time = Item(last.arg).created_at
    /\ LastTarget.start_time < last.before.start_time
    /\ LastTarget.end_time = last.before.end_time
    /\ LastTarget.start_time < LastTarget.end_time

\* The positions of the list its whose report has a place.
PlacedAt(its) == {k \in 1..Len(its) : ~FalsyStr(Item(its[k]).place)}

\* The place value occurring most often in the list its, the one that
\* occurs first winning a tie.
ModePlace(its) ==
    LET ks == PlacedAt(its)
        Count(k) == Cardinality({l \in ks :
                                   Item(its[l]).place = Item(its[k]).place})
        best == {k \in ks : \A l \in ks : Count(l) <= Count(k)}
    IN IF ks = {} THEN "an unknown location"
       ELSE Item(its[MinOf(best)]).place

\* The place of the first report of the list its that has one.
FirstNamedPlace(its) ==
    IF PlacedAt(its) = {} THEN "an unknown location"
    ELSE Item(its[MinOf(PlacedAt(its))]).place

\* The title and description of ev name the place pl.
SummaryNames(ev, pl) ==
    \E ty \in MostCommonTypes(ev.items) :
      /\ ev.title = Capitalize(ty) \o " in " \o pl
      /\ ev.description =
           "A " \o ty \o " event was reported in " \o pl
           \o " with " \o ToString(Len(ev.items))
           \o " related reports from " \o ToString(ev.source_count)
           \o " different sources."

C26_AtMostOneEvent ==
    \A i \in items :
      Cardinality({e \in EventIds : i \in MembersOf(events[e])}) <= 1

\* C27: process_new_item adds a report only to an event whose start_time
\* was at most 24 hours later and at most 24 hours earlier than the
\* report's created_at.
C27_WindowBothWays ==
    [][( /\ last'.call = "process_new_item"
         /\ last'.branch = "added" )
       => LET t == Item(last'.arg).created_at
              start == events[last'.ret[1]].start_time
          IN /\ start <= t + 24
             /\ start >= t - 24]_vars

\* C28: process_new_item for a stored report whose latitude and longitude
\* are both non-null, 0 included, returns an event that has the report
\* among its members.
C28_LocatedReportGetsEvent ==
    [][( /\ last'.call = "process_new_item"
         /\ last'.arg \in items
         /\ HasCoords(last'.arg) )
       => /\ last'.ret # <<>>
          /\ last'.arg \in MembersOf(events'[last'.ret[1]])]_vars

\* C29: a recluster_events call made right after another one, nothing
\* stored or processed in between, creates no event and returns an empty
\* list.
C29_SecondSweepEmpty ==
    [][( /\ last.call = "recluster_events"
         /\ last'.call = "recluster_events" )
       => /\ events' = events
          /\ last'.ret = <<>>]_vars

\* C30: while no verify_event call has been made, an event that is
\* verified is still verified after every step.
C30_VerifiedStaysVerified ==
    [][manual' = 0
       => \A e \in EventIds :
            events[e].is_verified => events'[e].is_verified]_vars

\* No verify_event call was made; a report from a source that is not
\* official has just joined an event that was verified, and the event is
\* still verified.
C30_Witness ==
    /\ manual = 0
    /\ LastAdded
    /\ Item(last.arg).source \notin official_sources
    /\ last.before.is_verified = TRUE
    /\ LastTarget.is_verified = TRUE

====
